---- MODULE Spec2Model ----
(***************************************************************************)
(* Model of the clipboard history engine (src/src/clipboardManager.ts),    *)
(* its persistence adapter (src/src/storage.ts) and the activation         *)
(* lifecycle of src/src/extension.ts.                                      *)
(*                                                                         *)
(* Text is a sequence of UTF-16 code units, as a JavaScript string is: the  *)
(* empty string is << >>, "sv" is <<115, 118>>.                            *)
(* Time is counted in whole days (one unit = 24*60*60*1000 ms), so that    *)
(* Date.now() is the variable now; the clock advances in every            *)
(* specification that sorts entries by timestamp, and two captures share a *)
(* timestamp only when the clock has not moved between them. A readText()  *)
(* returns the text the clipboard held when it was called. An entry of the *)
(* list is the record of the fields the engine works on (id, content,      *)
(* timestamp, isPinned); EntryValue gives the ClipboardEntry object it     *)
(* stands for, and JsonStringify and JsonParse are JSON.stringify and      *)
(* JSON.parse on such values. generateId() numbers the entries: entry n    *)
(* has the id text of the n-th value of Math.random(), taken as n/16.      *)
(*                                                                         *)
(* Every handler is cut at each of its awaits. initialize() is             *)
(* InitializeStart (load and sweep, up to the await of readText) and       *)
(* InitializeResume or InitializeReadFails. A polling tick is TickStart    *)
(* (readText called), TickResume (the read returned: checkClipboard up to  *)
(* the store write of addEntry) or TickReadFails. addEntry, deleteEntry,   *)
(* togglePin and clearHistory run up to their awaited store write; the     *)
(* write is queued in saves, and SaveSettles (the write takes effect and   *)
(* the handler fires its notification) or SaveFails ends the handler. The  *)
(* save of cleanupOldEntries, which nothing awaits, is queued the same way. *)
(* copyToClipboard runs up to its awaited writeText, ended by              *)
(* ClipboardWritten or ClipboardWriteFails. Apart from initialize() being  *)
(* called once, the actions carry no guard the code does not have; what    *)
(* the host calls, and when, is written in the next-state relation of each *)
(* specification.                                                          *)
(*                                                                         *)
(* Spec is the history engine: captures, the four commands and             *)
(* updateConfig, the commands called on an initialized manager as          *)
(* extension.ts registers them after initialize() has returned, one        *)
(* handler at a time.                                                      *)
(* SpecCommands is the commands that take an entry id. SpecAsync is        *)
(* polling with copyToClipboard. SpecStore is the commands with store      *)
(* writes that settle or fail. SpecStorage is the persistence adapter      *)
(* alone: saveHistory and clearHistory with a write that is pending, then  *)
(* takes effect or is rejected, and loadHistory, the host keeping a value  *)
(* as its JSON text. In the specifications of the engine the store holds   *)
(* the record written. SpecAdd is addEntry and capturing ticks over the    *)
(* pinned and unpinned entries of an earlier session. SpecLifecycle is     *)
(* initialize, with and without a failing clipboard read, updateConfig and *)
(* dispose called at any moment. A later session over the same store is a  *)
(* new manager: it is an initial state of SpecSweep, SpecPersist, SpecAdd  *)
(* and SpecStartup.                                                        *)
(* SpecDedup is ticks with deleteEntry, togglePin and copyToClipboard over *)
(* three captures. SpecPinning is togglePin and deleteEntry over three     *)
(* captures made at different times. SpecStartup is a session over a       *)
(* stored history in which nothing changes the clipboard. SpecPolling is   *)
(* polling with clipboard reads that may fail. SpecNotify is the handlers  *)
(* next to the calls that change nothing. SpecOneChange is overlapping     *)
(* ticks around one external change of the clipboard. SpecPersist is the   *)
(* handlers and the sweep of initialize with their store writes in flight  *)
(* together. SpecSweep is initialize over a history stored by an earlier   *)
(* session, followed by captures and commands. SpecTimers is initialize    *)
(* with updateConfig, stopMonitoring and dispose called at any moment.     *)
(***************************************************************************)
EXTENDS Integers, Sequences, FiniteSets, TLC

VARIABLES
  phase,      \* initialize(): "new": not called; "loading": at its await of
              \* readText(); "ready": returned; "failed": rejected
  entries,    \* ClipboardManager.entries
  lastClipboardContent, \* ClipboardManager.lastClipboardContent
  config,     \* ClipboardManager.config
  clipboard,  \* the host's clipboard text
  store,      \* globalState[STORAGE_KEY]: Absent or a saved SerializedHistory
  now,        \* Date.now(), in days
  nextId,     \* the next id generateId() hands out
  reads,      \* results of the clipboard reads polling ticks are awaiting
  writes,     \* texts of the clipboard writes copyToClipboard is awaiting
  writeBack,  \* history: <<text>> of the last copyToClipboard, until an outside copy
  lastOp,     \* history: the handler that ran last, whether it emitted a change
              \* notification, and how many entries it dropped
  monitoringInterval, \* ClipboardManager.monitoringInterval is set (a live timer)
  saves,      \* the store writes handlers are awaiting, in the order issued
  timers,     \* the number of intervals set with setInterval and not cleared
  disposed,   \* dispose() has run: onDidChangeEmitter is disposed
  initRead    \* the text the readText() of initialize() will return, while
              \* initialize() awaits it

vars == <<phase, entries, lastClipboardContent, config, clipboard, store, now,
          nextId, reads, writes, writeBack, lastOp, monitoringInterval, saves,
          timers, disposed, initRead>>

----------------------------------------------------------------------------
(* Bounds of the model *)

MaxIds == 2        \* entries ever created, in Spec and SpecCommands
MaxAsyncIds == 3   \* entries ever created, in SpecAsync
MaxTime == 1       \* the clock runs from 0 to MaxTime days
MaxHistory == 1    \* maxHistorySize ranges over 0..MaxHistory
MaxAsyncHistory == 2   \* the same, in SpecAsync
MaxDays == 1       \* autoCleanupDays ranges over 1..MaxDays
MaxReads == 1      \* clipboard reads in flight
MaxOverlap == 2    \* clipboard reads in flight, in SpecOneChange
MaxWrites == 1     \* clipboard writes in flight
MaxSaves == 2      \* store writes in flight
MaxListLen == 2    \* length of the lists handed to saveHistory in SpecStorage
MaxAddIds == 6     \* entries ever created, in SpecAdd, four of them in an earlier session

----------------------------------------------------------------------------
(* Values *)

Empty == << >>

SecretValue == <<115, 118>>   \* "sv", standing for "secret-value"
NotSecret == <<110, 115>>     \* "ns", standing for "not-secret"

Contents == {SecretValue, NotSecret}

PatSecretAnchored == <<94, 115>>   \* the pattern ^s
PatBroken == <<91>>                \* the pattern [, an unterminated class: new RegExp throws

PatternLists == { << >>, <<PatBroken, PatSecretAnchored>> }

STORAGE_VERSION == <<49, 46, 48, 46, 48>>   \* '1.0.0'

\* globalState.get(STORAGE_KEY) returns undefined
Absent == [present |-> FALSE, entries |-> << >>, version |-> << >>]

\* a stored record without an entries field (written by something else)
NoEntriesRecord == [present |-> TRUE, version |-> STORAGE_VERSION]

\* writeBack holds <<text>>, or NoText when no write-back is being tracked
NoText == << >>

Configs == [maxHistorySize : 0..MaxHistory,
            autoCleanupDays : 1..MaxDays,
            excludePatterns : PatternLists]

AsyncConfigs == [maxHistorySize : 0..MaxAsyncHistory,
                 autoCleanupDays : 1..MaxDays,
                 excludePatterns : PatternLists]

Ids == 1..MaxIds

----------------------------------------------------------------------------
(* Sequences *)

RemoveAt(s, i) == SubSeq(s, 1, i - 1) \o SubSeq(s, i + 1, Len(s))

IsPrefix(p, s) == Len(p) <= Len(s) /\ SubSeq(s, 1, Len(p)) = p

IsInfix(p, s) ==
  \E k \in 0..(Len(s) - Len(p)) : SubSeq(s, k + 1, k + Len(p)) = p

IsPinned(e) == e.isPinned

IsUnpinned(e) == ~e.isPinned

PinnedEntries(es) == SelectSeq(es, IsPinned)

UnpinnedEntries(es) == SelectSeq(es, IsUnpinned)

IdsOf(es) == {es[i].id : i \in DOMAIN es}

PinnedIdsOf(es) == {es[i].id : i \in {j \in DOMAIN es : es[j].isPinned}}

----------------------------------------------------------------------------
(* Text of an entry: lines and content type *)

\* content.split('\n').length
LineCount(content) ==
  1 + Cardinality({i \in DOMAIN content : content[i] = 10})

\* the alternatives of the first pattern of detectContentType: import, export,
\* function, class, const, let, var, if, for, while
CodeKeywords ==
  { <<105, 109, 112, 111, 114, 116>>, <<101, 120, 112, 111, 114, 116>>,
    <<102, 117, 110, 99, 116, 105, 111, 110>>, <<99, 108, 97, 115, 115>>,
    <<99, 111, 110, 115, 116>>, <<108, 101, 116>>, <<118, 97, 114>>,
    <<105, 102>>, <<102, 111, 114>>, <<119, 104, 105, 108, 101>> }

\* the code units \s matches in a regular expression without the u flag: tab,
\* LF, VT, FF, CR, space, no-break space, U+1680, U+2000 to U+200A, U+2028,
\* U+2029, U+202F, U+205F, U+3000, U+FEFF
WhiteSpace ==
  {9, 10, 11, 12, 13, 32, 160, 5760} \cup (8192..8202)
    \cup {8232, 8233, 8239, 8287, 12288, 65279}

\* the code units after which ^ matches under the m flag: LF, CR, U+2028, U+2029
LineTerminators == {10, 13, 8232, 8233}

\* /^(import|export|function|class|const|let|var|if|for|while)\s/m
KeywordAtLineStart(content) ==
  \E k \in DOMAIN content : \E w \in CodeKeywords :
    /\ k = 1 \/ content[k - 1] \in LineTerminators
    /\ k + Len(w) <= Len(content)
    /\ SubSeq(content, k, k + Len(w) - 1) = w
    /\ content[k + Len(w)] \in WhiteSpace

ContentTypeCode == <<99, 111, 100, 101>>   \* 'code'

ContentTypeText == <<116, 101, 120, 116>>  \* 'text'

\* detectContentType(content): the five patterns, the second being the class
\* of { } [ ] ; ( ), the others =>, // and /*
DetectContentType(content) ==
  IF \/ KeywordAtLineStart(content)
     \/ \E i \in DOMAIN content : content[i] \in {123, 125, 91, 93, 59, 40, 41}
     \/ IsInfix(<<61, 62>>, content)
     \/ IsInfix(<<47, 47>>, content)
     \/ IsInfix(<<47, 42>>, content)
  THEN ContentTypeCode
  ELSE ContentTypeText

----------------------------------------------------------------------------
(* JavaScript values, as JSON.stringify reads them and JSON.parse builds them *)

JsUndefined == [t |-> "undefined"]

JsNull == [t |-> "null"]

JsBoolean(b) == [t |-> "boolean", v |-> b]

JsNumber(n) == [t |-> "number", v |-> n]

JsString(s) == [t |-> "string", v |-> s]

JsArray(xs) == [t |-> "array", v |-> xs]

\* an object is the sequence of its own properties in creation order
JsObject(ms) == [t |-> "object", v |-> ms]

Member(key, value) == [k |-> key, v |-> value]

\* the value of the property key of an object, undefined when it has none
Get(obj, key) ==
  IF \E i \in DOMAIN obj.v : obj.v[i].k = key
  THEN obj.v[CHOOSE i \in DOMAIN obj.v : obj.v[i].k = key].v
  ELSE JsUndefined

\* a property set on an object: a new key goes last, a known key keeps its place
Put(ms, key, value) ==
  IF \E i \in DOMAIN ms : ms[i].k = key
  THEN [i \in DOMAIN ms |-> IF ms[i].k = key THEN Member(key, value) ELSE ms[i]]
  ELSE Append(ms, Member(key, value))

----------------------------------------------------------------------------
(* JSON.stringify *)

\* the digit d < 36 in lower case, as Number.prototype.toString and the
\* \u escapes of JSON.stringify write it
DigitChar(d) == IF d < 10 THEN 48 + d ELSE 87 + d

RECURSIVE NumberText(_)

\* an integer as JSON.stringify writes it
NumberText(n) ==
  IF n < 0 THEN <<45>> \o NumberText(0 - n)
  ELSE IF n < 10 THEN <<DigitChar(n)>>
  ELSE NumberText(n \div 10) \o <<DigitChar(n % 10)>>

\* \uXXXX for the code unit c
UnicodeEscape(c) ==
  <<92, 117, DigitChar(c \div 4096), DigitChar((c \div 256) % 16),
    DigitChar((c \div 16) % 16), DigitChar(c % 16)>>

IsHighSurrogate(c) == c >= 55296 /\ c <= 56319

IsLowSurrogate(c) == c >= 56320 /\ c <= 57343

\* QuoteJSONString for one code unit that is not half of a surrogate pair:
\* \b \t \n \f \r \" \\, \uXXXX for the other control characters and for a
\* lone surrogate, the code unit itself otherwise
JsonChar(c) ==
  CASE c = 8 -> <<92, 98>>
    [] c = 9 -> <<92, 116>>
    [] c = 10 -> <<92, 110>>
    [] c = 12 -> <<92, 102>>
    [] c = 13 -> <<92, 114>>
    [] c = 34 -> <<92, 34>>
    [] c = 92 -> <<92, 92>>
    [] OTHER -> IF c < 32 \/ IsHighSurrogate(c) \/ IsLowSurrogate(c)
                THEN UnicodeEscape(c)
                ELSE <<c>>

RECURSIVE JsonCharsFrom(_, _)

\* the code units of a string from position i on, between the quotes
JsonCharsFrom(text, i) ==
  IF i > Len(text) THEN << >>
  ELSE IF /\ IsHighSurrogate(text[i])
          /\ i < Len(text)
          /\ IsLowSurrogate(text[i + 1])
  THEN <<text[i], text[i + 1]>> \o JsonCharsFrom(text, i + 2)
  ELSE JsonChar(text[i]) \o JsonCharsFrom(text, i + 1)

JsonChars(text) == JsonCharsFrom(text, 1)

\* QuoteJSONString
JsonQuote(text) == <<34>> \o JsonChars(text) \o <<34>>

RECURSIVE JsonText(_)
RECURSIVE JsonElements(_, _)
RECURSIVE JsonMembers(_, _, _)

\* the elements of an array from position i on: undefined is written null
JsonElements(xs, i) ==
  IF i > Len(xs) THEN << >>
  ELSE (IF i > 1 THEN <<44>> ELSE << >>)
         \o (IF xs[i].t = "undefined" THEN <<110, 117, 108, 108>>
             ELSE JsonText(xs[i]))
         \o JsonElements(xs, i + 1)

\* the properties of an object from position i on: a property whose value is
\* undefined is left out; wrote: a property has been written before
JsonMembers(ms, i, wrote) ==
  IF i > Len(ms) THEN << >>
  ELSE IF ms[i].v.t = "undefined" THEN JsonMembers(ms, i + 1, wrote)
  ELSE (IF wrote THEN <<44>> ELSE << >>)
         \o JsonQuote(ms[i].k) \o <<58>> \o JsonText(ms[i].v)
         \o JsonMembers(ms, i + 1, TRUE)

\* SerializeJSONProperty for a value that is not undefined
JsonText(value) ==
  CASE value.t = "null" -> <<110, 117, 108, 108>>
    [] value.t = "boolean" ->
         IF value.v THEN <<116, 114, 117, 101>> ELSE <<102, 97, 108, 115, 101>>
    [] value.t = "number" -> NumberText(value.v)
    [] value.t = "string" -> JsonQuote(value.v)
    [] value.t = "array" -> <<91>> \o JsonElements(value.v, 1) \o <<93>>
    [] value.t = "object" -> <<123>> \o JsonMembers(value.v, 1, FALSE) \o <<125>>

\* JSON.stringify(value): the text, or undefined for undefined
JsonStringify(value) ==
  IF value.t = "undefined" THEN JsUndefined ELSE JsonText(value)

----------------------------------------------------------------------------
(* JSON.parse *)

ParseFails == [ok |-> FALSE]

\* a value read, and the position behind it
Parsed(value, p) == [ok |-> TRUE, v |-> value, p |-> p]

RECURSIVE SkipWhiteSpace(_, _)

\* the position of the first code unit from p on that is not JSON white space
SkipWhiteSpace(text, p) ==
  IF p <= Len(text) /\ text[p] \in {9, 10, 13, 32}
  THEN SkipWhiteSpace(text, p + 1)
  ELSE p

\* the value of a hexadecimal digit, -1 for another code unit
HexValue(c) ==
  IF c >= 48 /\ c <= 57 THEN c - 48
  ELSE IF c >= 65 /\ c <= 70 THEN c - 55
  ELSE IF c >= 97 /\ c <= 102 THEN c - 87
  ELSE 0 - 1

\* the code unit an escape letter stands for, -1 for no escape letter
EscapeValue(c) ==
  CASE c = 34 -> 34 [] c = 92 -> 92 [] c = 47 -> 47 [] c = 98 -> 8
    [] c = 102 -> 12 [] c = 110 -> 10 [] c = 114 -> 13 [] c = 116 -> 9
    [] OTHER -> 0 - 1

RECURSIVE ParseStringFrom(_, _, _)

\* the rest of a string literal from position p on, acc being read already
ParseStringFrom(text, p, acc) ==
  IF p > Len(text) THEN ParseFails
  ELSE IF text[p] = 34 THEN Parsed(acc, p + 1)
  ELSE IF text[p] < 32 THEN ParseFails
  ELSE IF text[p] # 92 THEN ParseStringFrom(text, p + 1, Append(acc, text[p]))
  ELSE IF p + 1 > Len(text) THEN ParseFails
  ELSE IF text[p + 1] = 117
  THEN IF /\ p + 5 <= Len(text)
          /\ \A i \in (p + 2)..(p + 5) : HexValue(text[i]) >= 0
       THEN ParseStringFrom(text, p + 6,
              Append(acc, HexValue(text[p + 2]) * 4096 + HexValue(text[p + 3]) * 256
                            + HexValue(text[p + 4]) * 16 + HexValue(text[p + 5])))
       ELSE ParseFails
  ELSE IF EscapeValue(text[p + 1]) >= 0
  THEN ParseStringFrom(text, p + 2, Append(acc, EscapeValue(text[p + 1])))
  ELSE ParseFails

\* a string literal whose opening quote is at position p
ParseString(text, p) ==
  IF p <= Len(text) /\ text[p] = 34 THEN ParseStringFrom(text, p + 1, << >>)
  ELSE ParseFails

IsDigit(c) == c >= 48 /\ c <= 57

RECURSIVE DigitsEnd(_, _)

\* the position behind the digits that start at p
DigitsEnd(text, p) ==
  IF p <= Len(text) /\ IsDigit(text[p]) THEN DigitsEnd(text, p + 1) ELSE p

RECURSIVE DigitsValue(_, _, _)

\* the number the digits at positions a..b write
DigitsValue(text, a, b) ==
  IF a > b THEN 0 ELSE DigitsValue(text, a, b - 1) * 10 + (text[b] - 48)

\* an integer literal at position p: -?(0|[1-9][0-9]*), with no fraction and
\* no exponent behind it (the numbers of a history record are Date.now() and
\* a line count)
ParseNumber(text, p) ==
  LET negative == p <= Len(text) /\ text[p] = 45
      from == IF negative THEN p + 1 ELSE p
      to == DigitsEnd(text, from)
  IN IF to = from THEN ParseFails
     ELSE IF text[from] = 48 /\ to > from + 1 THEN ParseFails
     ELSE IF to <= Len(text) /\ text[to] \in {46, 101, 69} THEN ParseFails
     ELSE Parsed(JsNumber(IF negative THEN 0 - DigitsValue(text, from, to - 1)
                          ELSE DigitsValue(text, from, to - 1)), to)

\* the literal word at position p, read as value
ParseWord(text, p, word, value) ==
  IF /\ p + Len(word) - 1 <= Len(text)
     /\ SubSeq(text, p, p + Len(word) - 1) = word
  THEN Parsed(value, p + Len(word))
  ELSE ParseFails

RECURSIVE ParseValue(_, _)
RECURSIVE ParseElements(_, _, _)
RECURSIVE ParseMembers(_, _, _)

\* the elements of an array from position p on, acc being read already
ParseElements(text, p, acc) ==
  LET element == ParseValue(text, p)
      q == SkipWhiteSpace(text, element.p)
  IN IF ~element.ok \/ q > Len(text) THEN ParseFails
     ELSE IF text[q] = 44 THEN ParseElements(text, q + 1, Append(acc, element.v))
     ELSE IF text[q] = 93 THEN Parsed(JsArray(Append(acc, element.v)), q + 1)
     ELSE ParseFails

\* the properties of an object from position p on, acc being read already: a
\* key that comes again overwrites the value read before
ParseMembers(text, p, acc) ==
  LET key == ParseString(text, SkipWhiteSpace(text, p))
      colon == SkipWhiteSpace(text, key.p)
      value == ParseValue(text, colon + 1)
      q == SkipWhiteSpace(text, value.p)
  IN IF ~key.ok \/ colon > Len(text) THEN ParseFails
     ELSE IF text[colon] # 58 THEN ParseFails
     ELSE IF ~value.ok \/ q > Len(text) THEN ParseFails
     ELSE IF text[q] = 44
     THEN ParseMembers(text, q + 1, Put(acc, key.v, value.v))
     ELSE IF text[q] = 125
     THEN Parsed(JsObject(Put(acc, key.v, value.v)), q + 1)
     ELSE ParseFails

\* the JSON value that starts at or behind position p
ParseValue(text, p) ==
  LET q == SkipWhiteSpace(text, p)
      inner == SkipWhiteSpace(text, q + 1)
  IN IF q > Len(text) THEN ParseFails
     ELSE IF text[q] = 123
     THEN IF inner <= Len(text) /\ text[inner] = 125
          THEN Parsed(JsObject(<< >>), inner + 1)
          ELSE ParseMembers(text, inner, << >>)
     ELSE IF text[q] = 91
     THEN IF inner <= Len(text) /\ text[inner] = 93
          THEN Parsed(JsArray(<< >>), inner + 1)
          ELSE ParseElements(text, inner, << >>)
     ELSE IF text[q] = 34
     THEN LET string == ParseString(text, q)
          IN IF string.ok THEN Parsed(JsString(string.v), string.p) ELSE ParseFails
     ELSE IF text[q] = 116 THEN ParseWord(text, q, <<116, 114, 117, 101>>, JsBoolean(TRUE))
     ELSE IF text[q] = 102
     THEN ParseWord(text, q, <<102, 97, 108, 115, 101>>, JsBoolean(FALSE))
     ELSE IF text[q] = 110 THEN ParseWord(text, q, <<110, 117, 108, 108>>, JsNull)
     ELSE ParseNumber(text, q)

\* JSON.parse(text)
JsonParse(text) ==
  LET value == ParseValue(text, 1)
  IN IF value.ok /\ SkipWhiteSpace(text, value.p) = Len(text) + 1
     THEN value.v
     ELSE [threw |-> "SyntaxError"]

----------------------------------------------------------------------------
(* storage.ts *)

SaveHistory(es) == [present |-> TRUE, entries |-> es, version |-> STORAGE_VERSION]

RECURSIVE SortEntries(_)

\* the comparator of togglePin's sort
ComparePin(a, b) ==
  IF a.isPinned /\ ~b.isPinned THEN -1
  ELSE IF ~a.isPinned /\ b.isPinned THEN 1
  ELSE b.timestamp - a.timestamp

\* loadHistory that hands the entries back pinned first, newest first
LoadHistoryNewestFirst(st) ==
  IF ~st.present \/ "entries" \notin DOMAIN st THEN << >> ELSE SortEntries(st.entries)

\* !data || !data.entries
LoadHistory(st) ==
  IF ~st.present \/ "entries" \notin DOMAIN st THEN << >> ELSE st.entries

\* clearHistory that stores an empty list instead of removing the record
StorageClearHistoryEmptyRecord ==
  [present |-> TRUE, entries |-> << >>, version |-> STORAGE_VERSION]

\* globalState.update(STORAGE_KEY, undefined)
StorageClearHistory == Absent

\* milliseconds in one unit of the clock (24 * 60 * 60 * 1000)
MsPerDay == 24 * 60 * 60 * 1000

\* Math.random().toString(36).substr(2, 9) of generateId, for the id the model
\* counts as number n: Math.random() is the environment's, and the model lets
\* its n-th value be n/16, whose digits to the base 36 are those of 9n/4 (for
\* example 0.25 gives "0.9" and 0.0625 gives "0.29"), so that ids differ
RandomText(n) ==
  IF (9 * n) % 4 = 0 THEN <<DigitChar((9 * n) \div 4)>>
  ELSE <<DigitChar((9 * n) \div 4), DigitChar(9 * ((9 * n) % 4))>>

\* generateId(): `${Date.now()}-${...}`, called in the same synchronous stretch
\* as the Date.now() of the entry's timestamp
IdText(e) == NumberText(e.timestamp * MsPerDay) \o <<45>> \o RandomText(e.id)

KeyId == <<105, 100>>                                             \* id

KeyContent == <<99, 111, 110, 116, 101, 110, 116>>                \* content

KeyTimestamp == <<116, 105, 109, 101, 115, 116, 97, 109, 112>>    \* timestamp

KeyIsPinned == <<105, 115, 80, 105, 110, 110, 101, 100>>          \* isPinned

KeySourceFile == <<115, 111, 117, 114, 99, 101, 70, 105, 108, 101>>   \* sourceFile

KeyLineCount == <<108, 105, 110, 101, 67, 111, 117, 110, 116>>    \* lineCount

KeyContentType == <<99, 111, 110, 116, 101, 110, 116, 84, 121, 112, 101>> \* contentType

KeyEntries == <<101, 110, 116, 114, 105, 101, 115>>               \* entries

KeyVersion == <<118, 101, 114, 115, 105, 111, 110>>               \* version

\* the ClipboardEntry object of a list entry, with its properties in the order
\* addEntry sets them; sourceFile is undefined unless the caller of addEntry
\* passed one, which checkClipboard does not
EntryValue(e) ==
  JsObject(<<Member(KeyId, JsString(IdText(e))),
             Member(KeyContent, JsString(e.content)),
             Member(KeyTimestamp, JsNumber(e.timestamp * MsPerDay)),
             Member(KeyIsPinned, JsBoolean(e.isPinned)),
             Member(KeySourceFile, IF "sourceFile" \in DOMAIN e
                                   THEN JsString(e.sourceFile)
                                   ELSE JsUndefined),
             Member(KeyLineCount, JsNumber(LineCount(e.content))),
             Member(KeyContentType, JsString(DetectContentType(e.content)))>>)

\* the value under STORAGE_KEY: undefined, or the SerializedHistory object
\* saveHistory builds
HistoryValue(st) ==
  IF ~st.present THEN JsUndefined
  ELSE IF "entries" \in DOMAIN st
  THEN JsObject(<<Member(KeyEntries,
                         JsArray([i \in DOMAIN st.entries |-> EntryValue(st.entries[i])])),
                  Member(KeyVersion, JsString(st.version))>>)
  ELSE JsObject(<<Member(KeyVersion, JsString(st.version))>>)

\* the list entry of a ClipboardEntry object read from the store: the number the
\* model counts the id as, and the timestamp in days
EntryOf(obj) ==
  LET idText == Get(obj, KeyId).v
      dash == CHOOSE i \in DOMAIN idText :
                idText[i] = 45 /\ \A j \in 1..(i - 1) : idText[j] # 45
      random == SubSeq(idText, dash + 1, Len(idText))
      entry == [id |-> CHOOSE n \in 1..15 : RandomText(n) = random,
                content |-> Get(obj, KeyContent).v,
                timestamp |-> Get(obj, KeyTimestamp).v \div MsPerDay,
                isPinned |-> Get(obj, KeyIsPinned).v]
  IN IF Get(obj, KeySourceFile).t = "undefined" THEN entry
     ELSE [id |-> entry.id, content |-> entry.content,
           timestamp |-> entry.timestamp, isPinned |-> entry.isPinned,
           sourceFile |-> Get(obj, KeySourceFile).v]

\* the record of a value read under STORAGE_KEY
HistoryOf(value) ==
  IF value.t = "undefined" THEN Absent
  ELSE IF Get(value, KeyEntries).t = "undefined"
  THEN [present |-> TRUE, version |-> Get(value, KeyVersion).v]
  ELSE [present |-> TRUE,
        entries |-> [i \in DOMAIN Get(value, KeyEntries).v |->
                       EntryOf(Get(value, KeyEntries).v[i])],
        version |-> Get(value, KeyVersion).v]

\* what globalState.get(STORAGE_KEY) hands back once update(STORAGE_KEY, value)
\* has taken effect: the host keeps the value as JSON (a Memento value must be
\* JSON-stringifyable), and undefined removes the key
Stored(st) ==
  IF ~st.present THEN Absent
  ELSE HistoryOf(JsonParse(JsonStringify(HistoryValue(st))))

\* getStorageStats(): data?.entries.length throws on a record without entries
GetStorageStats(st) ==
  IF ~st.present THEN [entryCount |-> 0, storageSize |-> 0]
  ELSE IF "entries" \notin DOMAIN st THEN [threw |-> "TypeError"]
  ELSE [entryCount |-> Len(st.entries),
        storageSize |-> Len(JsonStringify(HistoryValue(st)))]

----------------------------------------------------------------------------
(* clipboardManager.ts: the pure parts *)

\* new RegExp(pattern) throws a SyntaxError
RegExpThrows(p) == \E i \in DOMAIN p : p[i] = 91

\* new RegExp(pattern).test(content), for a literal with an optional ^ anchor
RegExpTest(p, c) ==
  IF Len(p) > 0 /\ p[1] = 94
  THEN IsPrefix(Tail(p), c)
  ELSE IsInfix(p, c)

RECURSIVE ShouldExcludeFrom(_, _, _)
ShouldExcludeFrom(patterns, content, i) ==
  IF i > Len(patterns) THEN FALSE
  ELSE IF RegExpThrows(patterns[i]) THEN ShouldExcludeFrom(patterns, content, i + 1)
  ELSE IF RegExpTest(patterns[i], content) THEN TRUE
  ELSE ShouldExcludeFrom(patterns, content, i + 1)

\* shouldExclude with the try around the whole loop: an invalid pattern ends it
ShouldExcludeUntilInvalid(patterns, content) ==
  \E i \in DOMAIN patterns :
    /\ \A j \in 1..i : ~RegExpThrows(patterns[j])
    /\ RegExpTest(patterns[i], content)

ShouldExclude(patterns, content) == ShouldExcludeFrom(patterns, content, 1)

\* the duplicate check with its length guard off by one
IsDuplicateOfHeadLongList(es, content) == Len(es) > 1 /\ es[1].content = content

IsDuplicateOfHead(es, content) == Len(es) > 0 /\ es[1].content = content

NewEntry(id, content, ts) ==
  [id |-> id, content |-> content, timestamp |-> ts, isPinned |-> FALSE]

\* splice one position too far: one entry more than n is kept
SpliceFromNext(es, n) == SubSeq(es, 1, n + 1)

\* Array.prototype.splice(n) on a list longer than n, n >= 0
SpliceFrom(es, n) == SubSeq(es, 1, n)

\* addEntry without its re-partition: the new entry stays at index 0
AddEntryListUnshiftOnly(es, entry, maxHistorySize) ==
  LET all == <<entry>> \o es
      excess == Len(UnpinnedEntries(all)) - maxHistorySize
  IN IF excess > 0 THEN SubSeq(all, 1, Len(all) - excess) ELSE all

\* addEntry dropping the newest unpinned entries instead of the oldest
AddEntryListDropNewest(es, entry, maxHistorySize) ==
  LET all == <<entry>> \o es
      unpinnedEntries == UnpinnedEntries(all)
      first == IF Len(unpinnedEntries) > maxHistorySize
               THEN Len(unpinnedEntries) - maxHistorySize + 1
               ELSE 1
  IN PinnedEntries(all) \o SubSeq(unpinnedEntries, first, Len(unpinnedEntries))

AddEntryList(es, entry, maxHistorySize) ==
  LET all == <<entry>> \o es
      pinnedEntries == PinnedEntries(all)
      unpinnedEntries == UnpinnedEntries(all)
      kept == IF Len(unpinnedEntries) > maxHistorySize
              THEN SpliceFrom(unpinnedEntries, maxHistorySize)
              ELSE unpinnedEntries
  IN pinnedEntries \o kept

\* findIndex: 0 stands for -1, positions count from 1
FindIndex(es, id) ==
  IF \E i \in DOMAIN es : es[i].id = id
  THEN CHOOSE i \in DOMAIN es : es[i].id = id /\ \A j \in 1..(i - 1) : es[j].id # id
  ELSE 0

\* deleteEntry without its index check: splice(-1, 1) drops the last entry
DeleteEntryListUnguarded(es, id) ==
  LET index == FindIndex(es, id)
  IN IF index # 0 THEN RemoveAt(es, index) ELSE SubSeq(es, 1, Len(es) - 1)

\* deleteEntry with splice(index): the entry and all entries behind it go
DeleteEntryListFromIndex(es, id) ==
  LET index == FindIndex(es, id)
  IN IF index # 0 THEN SubSeq(es, 1, index - 1) ELSE es

DeleteEntryList(es, id) ==
  LET index == FindIndex(es, id)
  IN IF index # 0 THEN RemoveAt(es, index) ELSE es

\* x put into the sorted list s behind every element that does not sort after it
InsertSorted(s, x) ==
  LET later == {i \in DOMAIN s : ComparePin(x, s[i]) < 0}
      at == IF later = {} THEN Len(s) + 1
            ELSE CHOOSE i \in later : \A j \in later : i <= j
  IN SubSeq(s, 1, at - 1) \o <<x>> \o SubSeq(s, at, Len(s))

\* Array.prototype.sort with ComparePin: a stable sort
SortEntries(es) ==
  IF es = << >> THEN << >>
  ELSE InsertSorted(SortEntries(SubSeq(es, 1, Len(es) - 1)), es[Len(es)])

\* togglePin moving a newly pinned entry to index 0 instead of sorting it in
TogglePinListToFront(es, id) ==
  LET index == FindIndex(es, id)
  IN IF index = 0 THEN es
     ELSE IF es[index].isPinned
     THEN SortEntries([es EXCEPT ![index].isPinned = FALSE])
     ELSE <<[es[index] EXCEPT !.isPinned = TRUE]>> \o RemoveAt(es, index)

TogglePinList(es, id) ==
  LET index == FindIndex(es, id)
  IN IF index # 0
     THEN SortEntries([es EXCEPT ![index].isPinned = ~es[index].isPinned])
     ELSE es

CutoffTime(t, days) == t - days

\* the sweep without its exemption of pinned entries
CleanupListByAgeOnly(es, t, days) ==
  LET Keep(e) == e.timestamp > CutoffTime(t, days)
  IN SelectSeq(es, Keep)

CleanupList(es, t, days) ==
  LET Keep(e) == e.isPinned \/ e.timestamp > CutoffTime(t, days)
  IN SelectSeq(es, Keep)

----------------------------------------------------------------------------
(* History records *)

\* fired: onDidChangeEmitter.fire() was called; n: entries dropped from the list
Op(name, didFire, n) == [op |-> name, fired |-> didFire, n |-> n]

----------------------------------------------------------------------------
(* Initial state: a fresh install, the manager constructed, nothing stored *)

Constructed(configs) ==
  /\ phase = "new"
  /\ entries = << >>
  /\ lastClipboardContent = Empty
  /\ config \in configs
  /\ clipboard = Empty
  /\ store = Absent
  /\ now = 0
  /\ nextId = 1
  /\ reads = << >>
  /\ writes = << >>
  /\ writeBack = NoText
  /\ lastOp = Op("construct", FALSE, 0)
  /\ monitoringInterval = FALSE
  /\ timers = 0
  /\ saves = << >>
  /\ disposed = FALSE
  /\ initRead = Empty

Init == Constructed(Configs)

InitAsync == Constructed(AsyncConfigs)

\* no clipboard read, clipboard write or store write is in flight
NothingInFlight == reads = << >> /\ writes = << >> /\ saves = << >>

----------------------------------------------------------------------------
(* The polling timer *)

\* the intervals left armed by stopMonitoring(): the one whose handle the
\* manager holds is cleared, any other stays
AfterStopMonitoring == IF monitoringInterval THEN timers - 1 ELSE timers

----------------------------------------------------------------------------
(* The environment *)

\* something outside the engine puts text on the clipboard
ExternalCopy(text) ==
  /\ text # clipboard
  /\ clipboard' = text
  /\ writeBack' = NoText
  /\ UNCHANGED <<phase, entries, lastClipboardContent, config, store, now,
                 nextId, reads, writes, lastOp>>
  /\ UNCHANGED <<monitoringInterval, saves, timers, disposed, initRead>>

AdvanceClock ==
  /\ now < MaxTime
  /\ now' = now + 1
  /\ UNCHANGED <<phase, entries, lastClipboardContent, config, clipboard, store,
                 nextId, reads, writes, writeBack, lastOp>>
  /\ UNCHANGED <<monitoringInterval, saves, timers, disposed, initRead>>

----------------------------------------------------------------------------
(* The store writes in flight *)

\* a store write in flight: the handler that issued it, the record it writes,
\* the number of entries the handler dropped
Save(name, value, n) == [op |-> name, value |-> value, n |-> n]

\* a store whose newest write takes effect before the writes issued earlier
IssueSaveAhead(name, value, n) ==
  /\ Len(saves) < MaxSaves
  /\ saves' = <<Save(name, value, n)>> \o saves

\* a handler has changed the list and calls the store
IssueSave(name, value, n) ==
  /\ Len(saves) < MaxSaves
  /\ saves' = Append(saves, Save(name, value, n))

\* the history record once the write of the handler name has taken effect: the
\* handler goes on to onDidChangeEmitter.fire(); nothing awaits the write of
\* cleanupOldEntries
AfterSave(name, n) == IF name = "cleanup" THEN lastOp ELSE Op(name, TRUE, n)

\* the history record once the write of the handler name is rejected: the await
\* throws and the handler's promise is rejected; checkClipboard catches the
\* rejection of the addEntry it called; nothing awaits the write of
\* cleanupOldEntries
AfterFailedSave(name, n) ==
  IF name = "cleanup" THEN lastOp
  ELSE IF name = "capture" THEN Op("tickSaveFailed", FALSE, n)
  ELSE Op("rejected", FALSE, n)

\* a handler that fires before its store write has taken effect
SaveSettlesAfterFire ==
  /\ saves # << >>
  /\ saves' = Tail(saves)
  /\ lastOp' = AfterSave(Head(saves).op, Head(saves).n)
  /\ UNCHANGED <<phase, entries, lastClipboardContent, config, clipboard, store,
                 now, nextId, reads, writes, writeBack, monitoringInterval,
                 timers, disposed, initRead>>

\* the oldest store write in flight takes effect; the handler awaiting it goes
\* on to onDidChangeEmitter.fire() and returns
SaveSettles ==
  /\ saves # << >>
  /\ store' = Head(saves).value
  /\ saves' = Tail(saves)
  /\ lastOp' = AfterSave(Head(saves).op, Head(saves).n)
  /\ UNCHANGED <<phase, entries, lastClipboardContent, config, clipboard, now,
                 nextId, reads, writes, writeBack, monitoringInterval,
                 timers, disposed, initRead>>

\* the oldest store write in flight is rejected: the await throws and the
\* handler ends there, before fire()
SaveFails ==
  /\ saves # << >>
  /\ saves' = Tail(saves)
  /\ lastOp' = AfterFailedSave(Head(saves).op, Head(saves).n)
  /\ UNCHANGED <<phase, entries, lastClipboardContent, config, clipboard, store,
                 now, nextId, reads, writes, writeBack, monitoringInterval,
                 timers, disposed, initRead>>

----------------------------------------------------------------------------
(* initialize, the timer, updateConfig, dispose *)

\* initialize() up to await vscode.env.clipboard.readText(): the list is
\* loaded and swept, cleanupOldEntries issues its save without awaiting it, the
\* clipboard read is pending and will return the text of this moment. loadHistory() reads globalState when it is called
\* and its await (line 26) resumes before any timer, clipboard read or store
\* write completes; a call made by the caller in between finds the manager as
\* a call made just before initialize() does, and is covered by that order.
\* extension.ts calls initialize() once per manager: phase is the place of
\* that one call.
InitializeStart ==
  /\ phase = "new"
  /\ LET loaded == LoadHistory(store)
         cleaned == CleanupList(loaded, now, config.autoCleanupDays)
     IN /\ entries' = cleaned
        /\ IF Len(cleaned) < Len(loaded)
           THEN IssueSave("cleanup", SaveHistory(cleaned), Len(loaded) - Len(cleaned))
           ELSE UNCHANGED saves
        /\ lastOp' = Op("initializeStart", FALSE, Len(loaded) - Len(cleaned))
  /\ initRead' = clipboard
  /\ phase' = "loading"
  /\ UNCHANGED <<lastClipboardContent, config, clipboard, store, now, nextId,
                 reads, writes, writeBack, monitoringInterval, timers,
                 disposed>>

\* readText() of initialize() returns the text the clipboard held when it was
\* called: the baseline is taken and startMonitoring() sets a new interval over
\* whatever handle the manager holds
InitializeResume ==
  /\ phase = "loading"
  /\ lastClipboardContent' = initRead
  /\ initRead' = Empty
  /\ phase' = "ready"
  /\ monitoringInterval' = TRUE
  /\ timers' = timers + 1
  /\ lastOp' = Op("initialize", FALSE, 0)
  /\ UNCHANGED <<entries, config, clipboard, store, now, nextId, reads, writes,
                 writeBack, saves, disposed>>

\* readText() of initialize() rejects: the await throws, initialize ends there
\* and its promise is rejected
InitializeReadFails ==
  /\ phase = "loading"
  /\ phase' = "failed"
  /\ initRead' = Empty
  /\ lastOp' = Op("rejected", FALSE, 0)
  /\ UNCHANGED <<entries, lastClipboardContent, config, clipboard, store, now,
                 nextId, reads, writes, writeBack, monitoringInterval, saves,
                 timers, disposed>>

\* stopMonitoring(): the interval whose handle the manager holds is cleared
StopMonitoring ==
  /\ monitoringInterval' = FALSE
  /\ timers' = AfterStopMonitoring
  /\ lastOp' = Op("stopMonitoring", FALSE, 0)
  /\ UNCHANGED <<phase, entries, lastClipboardContent, config, clipboard, store,
                 now, nextId, reads, writes, writeBack, saves, disposed, initRead>>

\* dispose(): stopMonitoring() and onDidChangeEmitter.dispose(); the manager
\* keeps no record of it, so every other method runs as before
Dispose ==
  /\ disposed' = TRUE
  /\ monitoringInterval' = FALSE
  /\ timers' = AfterStopMonitoring
  /\ lastOp' = Op("dispose", FALSE, 0)
  /\ UNCHANGED <<phase, entries, lastClipboardContent, config, clipboard, store,
                 now, nextId, reads, writes, writeBack, saves, initRead>>

\* updateConfig(newConfig): the config is replaced, the timer is stopped and
\* started again, whatever the config was and whatever else has run
UpdateConfig(newConfig) ==
  /\ config' = newConfig
  /\ monitoringInterval' = TRUE
  /\ timers' = AfterStopMonitoring + 1
  /\ lastOp' = Op("updateConfig", FALSE, 0)
  /\ UNCHANGED <<phase, entries, lastClipboardContent, clipboard, store, now,
                 nextId, reads, writes, writeBack, saves, disposed, initRead>>

----------------------------------------------------------------------------
(* Polling *)

\* addEntry(content) up to await this.storage.saveHistory(...): the entry is
\* made and put into the list, the list is cut to the cap, the save is issued
DoAddEntry(content, name, idLimit) ==
  LET entry == NewEntry(nextId, content, now)
      updated == AddEntryList(entries, entry, config.maxHistorySize)
  IN /\ nextId <= idLimit
     /\ entries' = updated
     /\ nextId' = nextId + 1
     /\ IssueSave(name, SaveHistory(updated), Len(entries) + 1 - Len(updated))

\* checkClipboard once readText() has returned currentContent, up to the await
\* of addEntry when it captures
CheckClipboard(currentContent, idLimit) ==
  IF currentContent # Empty /\ currentContent # lastClipboardContent
  THEN /\ lastClipboardContent' = currentContent
       /\ IF ShouldExclude(config.excludePatterns, currentContent)
          THEN /\ lastOp' = Op("tickExcluded", FALSE, 0)
               /\ UNCHANGED <<entries, nextId, saves>>
          ELSE IF IsDuplicateOfHead(entries, currentContent)
          THEN /\ lastOp' = Op("tickDuplicate", FALSE, 0)
               /\ UNCHANGED <<entries, nextId, saves>>
          ELSE /\ DoAddEntry(currentContent, "capture", idLimit)
               /\ lastOp' = Op("capture", FALSE, Len(entries) + 1 - Len(entries'))
  ELSE /\ lastOp' = Op("tickNoChange", FALSE, 0)
       /\ UNCHANGED <<entries, lastClipboardContent, nextId, saves>>

\* an armed interval fires: checkClipboard starts and awaits
\* clipboard.readText()
TickStartWithin(limit) ==
  /\ timers > 0
  /\ Len(reads) < limit
  /\ reads' = Append(reads, clipboard)
  /\ UNCHANGED <<phase, entries, lastClipboardContent, config, clipboard, store,
                 now, nextId, writes, writeBack, lastOp>>
  /\ UNCHANGED <<monitoringInterval, saves, timers, disposed, initRead>>

TickStart == TickStartWithin(MaxReads)

\* readText() of the i-th tick in flight returns, whatever has been called
\* since the tick started
TickResumeWithin(i, idLimit) ==
  /\ i \in DOMAIN reads
  /\ reads' = RemoveAt(reads, i)
  /\ CheckClipboard(reads[i], idLimit)
  /\ UNCHANGED <<phase, config, clipboard, store, now, writes, writeBack>>
  /\ UNCHANGED <<monitoringInterval, timers, disposed, initRead>>

TickResume(i) == TickResumeWithin(i, MaxAsyncIds)

\* a failed read that also takes the timer down
TickReadFailsDisarms(i) ==
  /\ i \in DOMAIN reads
  /\ reads' = RemoveAt(reads, i)
  /\ monitoringInterval' = FALSE
  /\ timers' = AfterStopMonitoring
  /\ lastOp' = Op("tickReadFailed", FALSE, 0)
  /\ UNCHANGED <<phase, entries, lastClipboardContent, config, clipboard, store,
                 now, nextId, writes, writeBack, saves, disposed, initRead>>

\* readText() of the i-th tick in flight rejects: the catch of checkClipboard
\* swallows the error, the interval stays set
TickReadFails(i) ==
  /\ i \in DOMAIN reads
  /\ reads' = RemoveAt(reads, i)
  /\ lastOp' = Op("tickReadFailed", FALSE, 0)
  /\ UNCHANGED <<phase, entries, lastClipboardContent, config, clipboard, store,
                 now, nextId, writes, writeBack>>
  /\ UNCHANGED <<monitoringInterval, saves, timers, disposed, initRead>>

----------------------------------------------------------------------------
(* The commands, each up to its await *)

\* addEntry(content) up to await this.storage.saveHistory(...)
AddEntryWithin(content, idLimit) ==
  /\ DoAddEntry(content, "addEntry", idLimit)
  /\ UNCHANGED <<phase, lastClipboardContent, config, clipboard, store, now,
                 reads, writes, writeBack, lastOp, monitoringInterval, timers,
                 disposed, initRead>>

AddEntry(content) == AddEntryWithin(content, MaxIds)

\* deleteEntry(id) up to await this.storage.saveHistory(...); with an id that
\* is not in the list it returns at once
DeleteEntry(id) ==
  /\ IF FindIndex(entries, id) # 0
     THEN /\ entries' = DeleteEntryList(entries, id)
          /\ IssueSave("deleteEntry", SaveHistory(entries'), 1)
          /\ UNCHANGED lastOp
     ELSE /\ entries' = DeleteEntryList(entries, id)
          /\ lastOp' = Op("absentId", FALSE, 0)
          /\ UNCHANGED saves
  /\ UNCHANGED <<phase, lastClipboardContent, config, clipboard, store, now,
                 nextId, reads, writes, writeBack, monitoringInterval, timers,
                 disposed, initRead>>

\* togglePin(id) up to await this.storage.saveHistory(...); with an id that is
\* not in the list it returns at once
TogglePin(id) ==
  /\ IF FindIndex(entries, id) # 0
     THEN /\ entries' = TogglePinList(entries, id)
          /\ IssueSave("togglePin", SaveHistory(entries'), 0)
          /\ UNCHANGED lastOp
     ELSE /\ entries' = TogglePinList(entries, id)
          /\ lastOp' = Op("absentId", FALSE, 0)
          /\ UNCHANGED saves
  /\ UNCHANGED <<phase, lastClipboardContent, config, clipboard, store, now,
                 nextId, reads, writes, writeBack, monitoringInterval, timers,
                 disposed, initRead>>

\* clearHistory() up to await this.storage.clearHistory()
ClearHistory ==
  /\ entries' = << >>
  /\ IssueSave("clearHistory", StorageClearHistory, Len(entries))
  /\ UNCHANGED <<phase, lastClipboardContent, config, clipboard, store, now,
                 nextId, reads, writes, writeBack, lastOp, monitoringInterval,
                 timers, disposed, initRead>>

\* copyToClipboard(id) up to its await: the baseline is set, the write is sent
CopyToClipboard(id) ==
  /\ LET index == FindIndex(entries, id)
     IN IF index # 0
        THEN /\ Len(writes) < MaxWrites
             /\ lastClipboardContent' = entries[index].content
             /\ writes' = Append(writes, entries[index].content)
             /\ writeBack' = <<entries[index].content>>
             /\ lastOp' = Op("copyToClipboard", FALSE, 0)
        ELSE /\ lastOp' = Op("absentId", FALSE, 0)
             /\ UNCHANGED <<lastClipboardContent, writes, writeBack>>
  /\ UNCHANGED <<phase, entries, config, clipboard, store, now, nextId, reads>>
  /\ UNCHANGED <<monitoringInterval, saves, timers, disposed, initRead>>

\* clipboard.writeText(content) of copyToClipboard takes effect
ClipboardWritten ==
  /\ writes # << >>
  /\ clipboard' = Head(writes)
  /\ writes' = Tail(writes)
  /\ UNCHANGED <<phase, entries, lastClipboardContent, config, store, now,
                 nextId, reads, writeBack, lastOp>>
  /\ UNCHANGED <<monitoringInterval, saves, timers, disposed, initRead>>

\* clipboard.writeText(content) of copyToClipboard rejects: copyToClipboard
\* rejects, the clipboard keeps its text, the baseline set before the await stays
ClipboardWriteFails ==
  /\ writes # << >>
  /\ writes' = Tail(writes)
  /\ lastOp' = Op("rejected", FALSE, 0)
  /\ UNCHANGED <<phase, entries, lastClipboardContent, config, clipboard, store,
                 now, nextId, reads, writeBack>>
  /\ UNCHANGED <<monitoringInterval, saves, timers, disposed, initRead>>

----------------------------------------------------------------------------
(* The persistence adapter on its own: a caller holding a list calls         *)
(* saveHistory over whatever the store holds, and its write is pending until *)
(* the host lets it take effect or rejects it; loadHistory and clearHistory   *)
(* are called at any of these moments                                         *)

\* texts that JSON.stringify writes with escapes: a quote, a backslash and a
\* line feed; a control character, a surrogate pair and a lone surrogate; text
\* outside ASCII with a line separator and a brace; text with a tab
StorageContents ==
  << <<34, 92, 10>>, <<1, 55357, 56832, 56832>>, <<233, 8232, 123>>, <<105, 102, 9>> >>

\* the path /a.ts
SourcePath == <<47, 97, 46, 116, 115>>

\* the entry number k, made on day 0 when k is odd and on day 1 when k is
\* even: the last of them came with a sourceFile
StorageEntry(k, pinned) ==
  IF k < Len(StorageContents)
  THEN [id |-> k, content |-> StorageContents[k], timestamp |-> (k + 1) % 2,
        isPinned |-> pinned]
  ELSE [id |-> k, content |-> StorageContents[k], timestamp |-> (k + 1) % 2,
        isPinned |-> pinned, sourceFile |-> SourcePath]

StorageEntries ==
  {StorageEntry(k, pinned) : k \in DOMAIN StorageContents, pinned \in BOOLEAN}

\* the lists of up to MaxListLen entries with ids of their own, in any order
EntryLists ==
  {es \in UNION {[1..n -> StorageEntries] : n \in 0..MaxListLen} :
     \A i, j \in DOMAIN es : es[i].id = es[j].id => i = j}

PriorStores ==
  {Absent, NoEntriesRecord, SaveHistory(<< >>),
   SaveHistory(<<StorageEntry(3, TRUE)>>)}

InitStorage ==
  /\ phase = "new"
  /\ entries \in EntryLists
  /\ lastClipboardContent = Empty
  /\ config = [maxHistorySize |-> MaxHistory, autoCleanupDays |-> MaxDays,
               excludePatterns |-> << >>]
  /\ clipboard = Empty
  /\ store \in PriorStores
  /\ now = 0
  /\ nextId = 1
  /\ reads = << >>
  /\ writes = << >>
  /\ writeBack = NoText
  /\ lastOp = Op("construct", FALSE, 0)
  /\ monitoringInterval = FALSE
  /\ timers = 0
  /\ saves = << >>
  /\ disposed = FALSE
  /\ initRead = Empty

\* saveHistory(entries) up to await globalState.update(STORAGE_KEY, data); the
\* caller has awaited the call it made before
StorageSave ==
  /\ saves = << >>
  /\ saves' = <<Save("saveHistory", SaveHistory(entries), 0)>>
  /\ UNCHANGED <<phase, entries, lastClipboardContent, config, clipboard, store,
                 now, nextId, reads, writes, writeBack, lastOp,
                 monitoringInterval, timers, disposed, initRead>>

\* clearHistory() up to await globalState.update(STORAGE_KEY, undefined)
StorageClear ==
  /\ saves = << >>
  /\ saves' = <<Save("clearHistory", StorageClearHistory, 0)>>
  /\ UNCHANGED <<phase, entries, lastClipboardContent, config, clipboard, store,
                 now, nextId, reads, writes, writeBack, lastOp,
                 monitoringInterval, timers, disposed, initRead>>

\* the pending update takes effect and the call returns: the store holds what
\* the host has kept of the value
StorageWriteLands ==
  /\ saves # << >>
  /\ store' = Stored(Head(saves).value)
  /\ saves' = Tail(saves)
  /\ lastOp' = Op(Head(saves).op, FALSE, 0)
  /\ UNCHANGED <<phase, entries, lastClipboardContent, config, clipboard, now,
                 nextId, reads, writes, writeBack, monitoringInterval, timers,
                 disposed, initRead>>

\* the pending update is rejected: the await throws, the store is as it was
StorageWriteFails ==
  /\ saves # << >>
  /\ saves' = Tail(saves)
  /\ lastOp' = Op("rejected", FALSE, 0)
  /\ UNCHANGED <<phase, entries, lastClipboardContent, config, clipboard, store,
                 now, nextId, reads, writes, writeBack, monitoringInterval,
                 timers, disposed, initRead>>

\* entries = await storage.loadHistory(): globalState.get reads the store as it
\* is, a pending write not yet in it
StorageLoad ==
  /\ entries' = LoadHistory(store)
  /\ lastOp' = Op("loadHistory", FALSE, 0)
  /\ UNCHANGED <<phase, lastClipboardContent, config, clipboard, store, now,
                 nextId, reads, writes, writeBack, monitoringInterval, saves,
                 timers, disposed, initRead>>

NextStorage ==
  \/ StorageSave
  \/ StorageClear
  \/ StorageWriteLands
  \/ StorageWriteFails
  \/ StorageLoad

SpecStorage == InitStorage /\ [][NextStorage]_vars

----------------------------------------------------------------------------
(* addEntry over the list of an earlier session: up to two pinned and two   *)
(* unpinned entries, under a cap that may be below the number of unpinned   *)
(* entries stored; one call in flight at a time                             *)

\* the fullest list an earlier session left: entries 2 and 1 pinned, entries 4
\* and 3 unpinned, all made on day 0
AddStoredFull ==
  << [NewEntry(2, SecretValue, 0) EXCEPT !.isPinned = TRUE],
     [NewEntry(1, NotSecret, 0) EXCEPT !.isPinned = TRUE],
     NewEntry(4, SecretValue, 0),
     NewEntry(3, NotSecret, 0) >>

RECURSIVE SubLists(_)

\* the lists made of some of the entries of es, in the order of es
SubLists(es) ==
  IF es = << >> THEN {<< >>}
  ELSE LET rest == SubLists(Tail(es))
       IN rest \cup {<<Head(es)>> \o r : r \in rest}

AddConfigs ==
  {c \in AsyncConfigs : c.excludePatterns = << >> /\ c.autoCleanupDays = 1}

InitAdd ==
  /\ phase = "new"
  /\ entries = << >>
  /\ lastClipboardContent = Empty
  /\ config \in AddConfigs
  /\ clipboard = Empty
  /\ store \in {SaveHistory(es) : es \in SubLists(AddStoredFull)}
  /\ now = 0
  /\ nextId = Len(AddStoredFull) + 1
  /\ reads = << >>
  /\ writes = << >>
  /\ writeBack = NoText
  /\ lastOp = Op("construct", FALSE, 0)
  /\ monitoringInterval = FALSE
  /\ timers = 0
  /\ saves = << >>
  /\ disposed = FALSE
  /\ initRead = Empty

NextAdd ==
  \/ (NothingInFlight /\ AdvanceClock)
  \/ \E text \in Contents : ExternalCopy(text)
  \/ InitializeStart
  \/ InitializeResume
  \/ (NothingInFlight /\ TickStart)
  \/ \E i \in 1..MaxReads : TickResumeWithin(i, MaxAddIds)
  \/ \E content \in Contents :
       (phase = "ready" /\ NothingInFlight /\ AddEntryWithin(content, MaxAddIds))
  \/ SaveSettles

SpecAdd == InitAdd /\ [][NextAdd]_vars

----------------------------------------------------------------------------
(* Sessions with the one config that leaves the most room: the widest cap,  *)
(* no exclude patterns                                                      *)

InitNotify ==
  Constructed({c \in Configs : c.maxHistorySize = MaxHistory /\ c.autoCleanupDays = 1})

----------------------------------------------------------------------------
(* The history engine. The commands and updateConfig are called once        *)
(* initialize() has returned (extension.ts registers them after its await); *)
(* a tick or a command is called when the one before it has returned, while *)
(* the clock runs and the clipboard changes at any moment, also between a   *)
(* readText() call and its return. Overlapping handlers are the subject of  *)
(* SpecCommands, SpecAsync, SpecStore, SpecPersist and SpecDedup.           *)

\* the configs of a session in which initialize sweeps nothing
EngineConfigs == {c \in Configs : c.autoCleanupDays = 1}

Next ==
  \/ AdvanceClock
  \/ \E text \in Contents : ExternalCopy(text)
  \/ InitializeStart
  \/ InitializeResume
  \/ (NothingInFlight /\ TickStart)
  \/ \E i \in 1..MaxReads : TickResumeWithin(i, MaxIds)
  \/ \E content \in Contents : (phase = "ready" /\ NothingInFlight /\ AddEntry(content))
  \/ \E id \in Ids : (phase = "ready" /\ NothingInFlight /\ DeleteEntry(id))
  \/ \E id \in Ids : (phase = "ready" /\ NothingInFlight /\ TogglePin(id))
  \/ (phase = "ready" /\ NothingInFlight /\ ClearHistory)
  \/ \E newConfig \in EngineConfigs :
       (phase = "ready" /\ NothingInFlight /\ UpdateConfig(newConfig))
  \/ SaveSettles

Spec == Constructed(EngineConfigs) /\ [][Next]_vars

(* The commands that take an entry id, over a list filled by polling ticks: *)
(* a command is called when no store write is in flight, also while a tick  *)
(* awaits its clipboard read; entries are captured at different times       *)

NextCommands ==
  \/ (NothingInFlight /\ AdvanceClock)
  \/ \E text \in Contents : ExternalCopy(text)
  \/ InitializeStart
  \/ InitializeResume
  \/ (NothingInFlight /\ TickStart)
  \/ \E i \in 1..MaxReads : TickResumeWithin(i, MaxIds)
  \/ \E id \in Ids : (phase = "ready" /\ saves = << >> /\ DeleteEntry(id))
  \/ \E id \in Ids : (phase = "ready" /\ saves = << >> /\ TogglePin(id))
  \/ \E id \in Ids : (phase = "ready" /\ saves = << >> /\ CopyToClipboard(id))
  \/ ClipboardWritten
  \/ SaveSettles

SpecCommands == InitNotify /\ [][NextCommands]_vars

(* Polling and copyToClipboard over a wider cap *)

NextAsync ==
  \/ \E text \in Contents : ExternalCopy(text)
  \/ InitializeStart
  \/ InitializeResume
  \/ TickStart
  \/ \E i \in 1..MaxReads : TickResume(i)
  \/ \E id \in 1..MaxAsyncIds : (phase = "ready" /\ CopyToClipboard(id))
  \/ ClipboardWritten
  \/ SaveSettles

SpecAsync == InitAsync /\ [][NextAsync]_vars

----------------------------------------------------------------------------
(* The commands with store writes that take effect or fail, called at      *)
(* different times and with the writes of earlier commands in flight       *)

NextStore ==
  \/ AdvanceClock
  \/ InitializeStart
  \/ InitializeResume
  \/ \E content \in Contents : (phase = "ready" /\ AddEntry(content))
  \/ \E id \in Ids : (phase = "ready" /\ DeleteEntry(id))
  \/ \E id \in Ids : (phase = "ready" /\ TogglePin(id))
  \/ (phase = "ready" /\ ClearHistory)
  \/ SaveSettles
  \/ SaveFails

SpecStore ==
  /\ Constructed({c \in EngineConfigs : /\ c.maxHistorySize = MaxHistory
                                         /\ c.excludePatterns = << >>})
  /\ [][NextStore]_vars

----------------------------------------------------------------------------
(* A session over the list an earlier session stored: the sweep of          *)
(* initialize, polling ticks and the commands with their store writes in    *)
(* flight together, every write succeeding                                  *)

\* what an earlier session left in the store
StoredLists ==
  { << >>,
    <<NewEntry(1, NotSecret, 0)>>,
    <<[NewEntry(1, NotSecret, 0) EXCEPT !.isPinned = TRUE]>> }

\* the session starts any number of days after the entries were stored and
\* has room for one new entry
InitPersist ==
  /\ phase = "new"
  /\ entries = << >>
  /\ lastClipboardContent = Empty
  /\ config \in {c \in Configs : c.excludePatterns = << >>}
  /\ clipboard = Empty
  /\ store \in {SaveHistory(es) : es \in StoredLists}
  /\ now \in 0..MaxTime
  /\ nextId = MaxIds
  /\ reads = << >>
  /\ writes = << >>
  /\ writeBack = NoText
  /\ lastOp = Op("construct", FALSE, 0)
  /\ monitoringInterval = FALSE
  /\ timers = 0
  /\ saves = << >>
  /\ disposed = FALSE
  /\ initRead = Empty

NextPersist ==
  \/ AdvanceClock
  \/ ExternalCopy(SecretValue)
  \/ InitializeStart
  \/ InitializeResume
  \/ TickStart
  \/ \E i \in 1..MaxReads : TickResumeWithin(i, MaxIds)
  \/ \E content \in Contents : (phase = "ready" /\ AddEntry(content))
  \/ \E id \in Ids : (phase = "ready" /\ DeleteEntry(id))
  \/ \E id \in Ids : (phase = "ready" /\ TogglePin(id))
  \/ (phase = "ready" /\ ClearHistory)
  \/ SaveSettles

SpecPersist == InitPersist /\ [][NextPersist]_vars

----------------------------------------------------------------------------
(* A session over a stored list of a pinned and an unpinned entry, started  *)
(* any number of days later: the sweep of initialize, then captures,        *)
(* togglePin, deleteEntry and clearHistory, one call in flight at a time    *)

\* what an earlier session left in the store: entries 1 and 2, made on day 0
SweepLists ==
  { <<[NewEntry(1, NotSecret, 0) EXCEPT !.isPinned = TRUE],
      NewEntry(2, SecretValue, 0)>>,
    <<NewEntry(1, NotSecret, 0), NewEntry(2, SecretValue, 0)>> }

InitSweep ==
  /\ phase = "new"
  /\ entries = << >>
  /\ lastClipboardContent = Empty
  /\ config \in {c \in Configs : c.excludePatterns = << >>}
  /\ clipboard = Empty
  /\ store \in {SaveHistory(es) : es \in SweepLists}
  /\ now \in 0..MaxTime
  /\ nextId = 3
  /\ reads = << >>
  /\ writes = << >>
  /\ writeBack = NoText
  /\ lastOp = Op("construct", FALSE, 0)
  /\ monitoringInterval = FALSE
  /\ timers = 0
  /\ saves = << >>
  /\ disposed = FALSE
  /\ initRead = Empty

NextSweep ==
  \/ AdvanceClock
  \/ \E text \in Contents : ExternalCopy(text)
  \/ InitializeStart
  \/ InitializeResume
  \/ (NothingInFlight /\ TickStart)
  \/ \E i \in 1..MaxReads : TickResume(i)
  \/ \E id \in 1..MaxAsyncIds : (phase = "ready" /\ NothingInFlight /\ DeleteEntry(id))
  \/ \E id \in 1..MaxAsyncIds : (phase = "ready" /\ NothingInFlight /\ TogglePin(id))
  \/ (phase = "ready" /\ NothingInFlight /\ ClearHistory)
  \/ SaveSettles

SpecSweep == InitSweep /\ [][NextSweep]_vars

----------------------------------------------------------------------------
(* The commands, one at a time and every write succeeding, next to the     *)
(* calls that change nothing: a tick that captures nothing and a command   *)
(* with an absent id                                                       *)

NextNotify ==
  \/ (NothingInFlight /\ AdvanceClock)
  \/ \E text \in Contents : ExternalCopy(text)
  \/ InitializeStart
  \/ InitializeResume
  \/ (NothingInFlight /\ TickStart)
  \/ \E i \in 1..MaxReads : TickResumeWithin(i, MaxIds)
  \/ \E content \in Contents : (phase = "ready" /\ NothingInFlight /\ AddEntry(content))
  \/ \E id \in Ids : (phase = "ready" /\ NothingInFlight /\ DeleteEntry(id))
  \/ \E id \in Ids : (phase = "ready" /\ NothingInFlight /\ TogglePin(id))
  \/ (phase = "ready" /\ NothingInFlight /\ ClearHistory)
  \/ SaveSettles

SpecNotify == InitNotify /\ [][NextNotify]_vars

----------------------------------------------------------------------------
(* The life of a manager: construction, initialize with or without its    *)
(* clipboard read, polling over a clipboard that may be emptied,          *)
(* updateConfig and dispose at any moment                                 *)

NextLifecycle ==
  \/ \E text \in Contents \cup {Empty} : ExternalCopy(text)
  \/ InitializeStart
  \/ InitializeResume
  \/ InitializeReadFails
  \/ TickStart
  \/ \E i \in 1..MaxReads : TickResumeWithin(i, MaxIds)
  \/ \E newConfig \in Configs : UpdateConfig(newConfig)
  \/ Dispose
  \/ SaveSettles

SpecLifecycle == Init /\ [][NextLifecycle]_vars

----------------------------------------------------------------------------
(* Captures of polling ticks combined with togglePin, deleteEntry and *)
(* copyToClipboard, with room for three captures                      *)

NextDedup ==
  \/ AdvanceClock
  \/ \E text \in Contents : ExternalCopy(text)
  \/ InitializeStart
  \/ InitializeResume
  \/ TickStart
  \/ \E i \in 1..MaxReads : TickResume(i)
  \/ \E id \in 1..MaxAsyncIds :
        (phase = "ready" /\ NothingInFlight /\ DeleteEntry(id))
  \/ \E id \in 1..MaxAsyncIds :
        (phase = "ready" /\ NothingInFlight /\ TogglePin(id))
  \/ \E id \in 1..MaxAsyncIds :
        (phase = "ready" /\ saves = << >> /\ CopyToClipboard(id))
  \/ ClipboardWritten
  \/ SaveSettles

SpecDedup == InitAsync /\ [][NextDedup]_vars

----------------------------------------------------------------------------
(* togglePin and deleteEntry over a list of up to three entries captured at *)
(* different times                                                          *)

\* the widest cap, no exclude patterns: the list holds as many entries as ids
InitPinning ==
  Constructed({c \in AsyncConfigs : /\ c.maxHistorySize = MaxAsyncHistory
                                    /\ c.excludePatterns = << >>
                                    /\ c.autoCleanupDays = 1})

NextPinning ==
  \/ \E text \in Contents : (NothingInFlight /\ ExternalCopy(text))
  \/ (NothingInFlight /\ AdvanceClock)
  \/ InitializeStart
  \/ InitializeResume
  \/ (NothingInFlight /\ TickStart)
  \/ \E i \in 1..MaxReads : TickResume(i)
  \/ \E id \in 1..MaxAsyncIds : (phase = "ready" /\ NothingInFlight /\ TogglePin(id))
  \/ \E id \in 1..MaxAsyncIds : (phase = "ready" /\ NothingInFlight /\ DeleteEntry(id))
  \/ SaveSettles

SpecPinning == InitPinning /\ [][NextPinning]_vars

----------------------------------------------------------------------------
(* A session over the history an earlier session stored, in which nothing   *)
(* changes the clipboard: the writes of copyToClipboard are pending or fail *)

\* what an earlier session left in the store
StartupStores == {Absent} \cup {SaveHistory(<<NewEntry(1, c, 0)>>) : c \in Contents}

InitStartup ==
  /\ phase = "new"
  /\ entries = << >>
  /\ lastClipboardContent = Empty
  /\ config \in Configs
  /\ clipboard \in Contents \cup {Empty}
  /\ store \in StartupStores
  /\ now = 0
  /\ nextId = MaxIds
  /\ reads = << >>
  /\ writes = << >>
  /\ writeBack = NoText
  /\ lastOp = Op("construct", FALSE, 0)
  /\ monitoringInterval = FALSE
  /\ timers = 0
  /\ saves = << >>
  /\ disposed = FALSE
  /\ initRead = Empty

NextStartup ==
  \/ AdvanceClock
  \/ InitializeStart
  \/ InitializeResume
  \/ TickStart
  \/ \E i \in 1..MaxReads : TickResumeWithin(i, MaxIds)
  \/ \E id \in Ids : (phase = "ready" /\ TogglePin(id))
  \/ \E id \in Ids : (phase = "ready" /\ CopyToClipboard(id))
  \/ ClipboardWriteFails
  \/ \E newConfig \in Configs : (phase = "ready" /\ UpdateConfig(newConfig))
  \/ SaveSettles

SpecStartup == InitStartup /\ [][NextStartup]_vars

----------------------------------------------------------------------------
(* Polling over a clipboard whose reads may fail *)

NextPolling ==
  \/ (NothingInFlight /\ AdvanceClock)
  \/ \E text \in Contents \cup {Empty} : ExternalCopy(text)
  \/ InitializeStart
  \/ InitializeResume
  \/ (reads = << >> /\ TickStart)
  \/ \E i \in 1..MaxReads : TickResumeWithin(i, MaxIds)
  \/ \E i \in 1..MaxReads : TickReadFails(i)
  \/ \E id \in Ids : (phase = "ready" /\ NothingInFlight /\ TogglePin(id))
  \/ \E newConfig \in EngineConfigs :
       (phase = "ready" /\ NothingInFlight /\ UpdateConfig(newConfig))
  \/ SaveSettles

SpecPolling == Constructed(EngineConfigs) /\ [][NextPolling]_vars

----------------------------------------------------------------------------
(* Overlapping polling ticks in a session with one external change of the *)
(* clipboard: "secret-value" is on it at startup, "not-secret" is copied  *)
(* once after initialize, reads return in any order                       *)

NextOneChange ==
  \/ (phase = "new" /\ ExternalCopy(SecretValue))
  \/ (phase = "ready" /\ ExternalCopy(NotSecret))
  \/ InitializeStart
  \/ InitializeResume
  \/ TickStartWithin(MaxOverlap)
  \/ \E i \in 1..MaxOverlap : TickResume(i)
  \/ SaveSettles

SpecOneChange == InitAsync /\ [][NextOneChange]_vars

----------------------------------------------------------------------------
(* One initialize() with updateConfig, stopMonitoring and dispose called at *)
(* any moment, and the ticks of every armed interval                        *)

NextTimers ==
  \/ \E text \in Contents : ExternalCopy(text)
  \/ InitializeStart
  \/ InitializeResume
  \/ \E newConfig \in Configs : UpdateConfig(newConfig)
  \/ StopMonitoring
  \/ Dispose
  \/ TickStart
  \/ \E i \in 1..MaxReads : TickResumeWithin(i, MaxIds)
  \/ SaveSettles

SpecTimers == Init /\ [][NextTimers]_vars

----------------------------------------------------------------------------
(* Properties of the history engine *)

PinnedFirst(es) ==
  \A i, j \in DOMAIN es : (es[i].isPinned /\ ~es[j].isPinned) => i < j

UnpinnedCount(es) == Len(UnpinnedEntries(es))

\* the store write issued last is the one of an addEntry, called directly or by
\* a tick, and no handler has changed the list since
AddAwaitsItsSave ==
  /\ saves # << >>
  /\ saves[Len(saves)].op \in {"capture", "addEntry"}
  /\ saves[Len(saves)].value = SaveHistory(entries)

\* C1: in every reachable state of the engine every pinned entry of the list
\* comes before every unpinned entry.
C1_PinnedBeforeUnpinned == PinnedFirst(entries)

\* an entry was added to a list that holds a pinned entry, and stayed behind it
C1_Witness ==
  /\ AddAwaitsItsSave
  /\ PinnedEntries(entries) # << >>
  /\ UnpinnedEntries(entries) # << >>

\* C2: right after the in-memory update of an add (generateId() has run: a
\* capture of a polling tick or an addEntry call) the number of unpinned
\* entries is at most maxHistorySize.
C2_CapHoldsAfterAdd ==
  [][nextId' = nextId + 1 => UnpinnedCount(entries') <= config.maxHistorySize]_vars

\* an add at the cap: the oldest unpinned entry was dropped, the new one kept
C2_Witness ==
  /\ AddAwaitsItsSave
  /\ saves[Len(saves)].n >= 1
  /\ config.maxHistorySize >= 1
  /\ UnpinnedCount(entries) = config.maxHistorySize

\* C3: in every reachable state the number of unpinned entries is at most the
\* configured maxHistorySize (also after togglePin unpins, after updateConfig
\* lowers the cap, after initialize loads a list).
C3_CapHoldsAlways == UnpinnedCount(entries) <= config.maxHistorySize

\* C4: a pinned entry stays in the list, pinned, over every step other than a
\* togglePin or deleteEntry of its id and clearHistory, and initialize keeps
\* every pinned entry of the list it loads, whatever its age.
C4_PinnedEntriesStay ==
  [][/\ \A id \in PinnedIdsOf(entries) :
          \/ id \in PinnedIdsOf(entries')
          \/ DeleteEntry(id)
          \/ TogglePin(id)
          \/ ClearHistory
     /\ InitializeStart => PinnedIdsOf(LoadHistory(store)) \subseteq PinnedIdsOf(entries')
    ]_vars

\* initialize has swept an entry away and kept a pinned entry that is as old
C4_Witness ==
  /\ lastOp.op = "initializeStart"
  /\ lastOp.n >= 1
  /\ \E i \in DOMAIN entries :
       /\ entries[i].isPinned
       /\ entries[i].timestamp <= CutoffTime(now, config.autoCleanupDays)

\* C5: togglePin(id) twice in a row, for an id of the list, leaves the list as it
\* was before the first call: the same flags and the same order.
C5_TogglePinTwiceRestores ==
  \A id \in IdsOf(entries) : TogglePinList(TogglePinList(entries, id), id) = entries

\* C6: a polling tick that reads text which differs from the baseline and equals
\* the content of the entry at index 0 leaves the list and the store as they
\* are, issues no store write and emits no change notification.
C6_DuplicateOfHeadSuppressed ==
  [][\A i \in DOMAIN reads :
       (/\ reads[i] # lastClipboardContent
        /\ entries # << >>
        /\ entries[1].content = reads[i]
        /\ TickResumeWithin(i, MaxIds))
       => (entries' = entries /\ store' = store /\ saves' = saves /\ ~lastOp'.fired)]_vars

\* a tick has just dropped text equal to the head entry's content
C6_Witness ==
  /\ lastOp.op = "tickDuplicate"
  /\ entries # << >>
  /\ entries[1].content = lastClipboardContent

\* some valid pattern of the list matches the content
MatchesSomePattern(patterns, content) ==
  \E i \in DOMAIN patterns :
    ~RegExpThrows(patterns[i]) /\ RegExpTest(patterns[i], content)

\* text that passes every check of checkClipboard
MustCapture(text) ==
  /\ text # Empty
  /\ text # lastClipboardContent
  /\ ~MatchesSomePattern(config.excludePatterns, text)
  /\ ~(entries # << >> /\ entries[1].content = text)

\* the list after the step holds a new entry with the text
NewEntryInList(text) ==
  \E k \in DOMAIN entries' :
    /\ entries'[k].id = nextId
    /\ entries'[k].content = text
    /\ ~entries'[k].isPinned

\* a tick leaves the list alone when a valid pattern matches what it read
ExcludedNeverAdded(text) ==
  MatchesSomePattern(config.excludePatterns, text)
    => UNCHANGED <<entries, store, saves>>

\* C7 as stated: a tick never adds text that a configured pattern matches, an
\* invalid pattern counting as no match, and text that passes every check is
\* in the list after the tick.
C7_ExcludeAndCapture_AsStated ==
  [][\A i \in DOMAIN reads :
       TickResumeWithin(i, MaxIds)
         => /\ ExcludedNeverAdded(reads[i])
            /\ MustCapture(reads[i]) => NewEntryInList(reads[i])]_vars

\* C7 amended: ... and text that passes every check is captured (addEntry runs:
\* an id is used, the store write is issued with the list addEntry leaves); it
\* is in the list after the tick when maxHistorySize >= 1.
C7_ExcludeAndCapture ==
  [][\A i \in DOMAIN reads :
       TickResumeWithin(i, MaxIds)
         => /\ ExcludedNeverAdded(reads[i])
            /\ MustCapture(reads[i]) =>
                 /\ nextId' = nextId + 1
                 /\ Len(saves') = Len(saves) + 1
                 /\ saves'[Len(saves')].value = SaveHistory(entries')
                 /\ config.maxHistorySize >= 1 => NewEntryInList(reads[i])]_vars

\* with an invalid pattern ahead of ^s in the list, "not-secret" is in the
\* list and a tick has just dropped "secret-value"
C7_Witness ==
  /\ lastOp.op = "tickExcluded"
  /\ config.excludePatterns = <<PatBroken, PatSecretAnchored>>
  /\ lastClipboardContent = SecretValue
  /\ \E i \in DOMAIN entries : entries[i].content = NotSecret

\* the sweep as C8 states it: only entries older than the cutoff are removed
SweepOlderThanCutoff(es, t, days) ==
  LET Keep(e) == e.isPinned \/ e.timestamp >= CutoffTime(t, days)
  IN SelectSeq(es, Keep)

\* C8: initialize leaves the loaded list without its unpinned entries older than
\* the cutoff (an entry at the cutoff stays), and rewrites the store only if
\* something was removed.
C8_InitializeSweepsOlderOnly ==
  [][InitializeStart =>
       /\ entries' = SweepOlderThanCutoff(LoadHistory(store), now, config.autoCleanupDays)
       /\ (saves' # saves => Len(entries') < Len(LoadHistory(store)))]_vars

----------------------------------------------------------------------------
(* Properties of the engine and the clipboard *)

\* C9: after copyToClipboard, while nothing outside the engine changes the
\* clipboard, no polling tick adds an entry for the text written back.
C9_NoCaptureOfWriteBack ==
  [][\A i \in DOMAIN reads :
       (TickResume(i) /\ writeBack # NoText /\ reads[i] = writeBack[1])
         => nextId' = nextId]_vars

\* C10: deleteEntry, togglePin and copyToClipboard with an id that is not in the
\* list change nothing: not the list, the baseline, the clipboard, the pending
\* clipboard write, the store, the pending store writes; and no change
\* notification is emitted.
C10_AbsentIdChangesNothing ==
  [][\A id \in Ids :
       (id \notin IdsOf(entries)
          /\ (DeleteEntry(id) \/ TogglePin(id) \/ CopyToClipboard(id)))
       => (/\ UNCHANGED <<entries, lastClipboardContent, clipboard, writes, store,
                          saves>>
           /\ ~lastOp'.fired)]_vars

\* a handler was just called with an id the non-empty list does not hold
C10_Witness ==
  /\ lastOp.op = "absentId"
  /\ entries # << >>

----------------------------------------------------------------------------
(* Properties of the handlers and their store writes *)

\* C11 (amended): when the store write of clearHistory() takes effect and
\* clearHistory() completes, the stored record is absent, loadHistory() returns
\* the empty list and getStorageStats() reports 0 entries and size 0, also when
\* the write of an earlier addEntry, deleteEntry or togglePin was still in
\* flight when clearHistory was called; the list is empty when no handler has
\* written since clearHistory was called, and otherwise it is the list the last
\* of those handlers has written.
C11_ClearHistoryEmptiesAll ==
  [][(SaveSettles /\ Head(saves).op = "clearHistory")
     => (/\ ~store'.present
         /\ LoadHistory(store') = << >>
         /\ GetStorageStats(store') = [entryCount |-> 0, storageSize |-> 0]
         /\ Tail(saves) = << >> => entries' = << >>
         /\ Tail(saves) # << >>
              => entries' = LoadHistory(saves[Len(saves)].value))]_vars

\* C11 as stated: whenever clearHistory() completes, the list is empty, the
\* stored record is absent, loadHistory() returns the empty list and
\* getStorageStats() reports 0 entries and size 0.
C11_ClearHistoryEmptiesAll_AsStated ==
  [][(SaveSettles /\ Head(saves).op = "clearHistory")
     => (/\ entries' = << >>
         /\ ~store'.present
         /\ LoadHistory(store') = << >>
         /\ GetStorageStats(store') = [entryCount |-> 0, storageSize |-> 0])]_vars

\* clearHistory has emptied a list that held a pinned entry and awaits its
\* store write, behind the write of an earlier handler that is still in flight
C11_Witness ==
  /\ Len(saves) = 2
  /\ saves[1].op \in {"addEntry", "deleteEntry", "togglePin"}
  /\ \E i \in DOMAIN saves[1].value.entries : saves[1].value.entries[i].isPinned
  /\ saves[2].op = "clearHistory"
  /\ entries = << >>

\* C15: when the store write of addEntry, deleteEntry, togglePin or clearHistory
\* fails, the handler surfaces no failure, keeps its in-memory change and still
\* emits its change notification.
C15_StoreFailureIsSilent ==
  [][SaveFails =>
       (/\ lastOp'.op # "rejected"
        /\ lastOp'.fired
        /\ entries' = entries)]_vars

\* the entries of xs and ys have the same ids, contents, pin flags and
\* timestamps, in the same order
SameEntries(xs, ys) ==
  /\ Len(xs) = Len(ys)
  /\ \A i \in DOMAIN xs :
       /\ xs[i].id = ys[i].id
       /\ xs[i].content = ys[i].content
       /\ xs[i].isPinned = ys[i].isPinned
       /\ xs[i].timestamp = ys[i].timestamp

\* C12: once the write of saveHistory(X) has taken effect, whatever the store
\* held before, the record is of the current version and loadHistory() returns
\* a list with the ids, contents, pin flags and timestamps of X in the order of
\* X; a loadHistory() that finds no record, or a record without an entries
\* field, returns the empty list.
C12_SaveLoadRoundTrip ==
  [][/\ (StorageWriteLands /\ Head(saves).op = "saveHistory")
          => /\ SameEntries(LoadHistory(store'), Head(saves).value.entries)
             /\ store'.version = STORAGE_VERSION
     /\ (StorageLoad /\ (~store.present \/ "entries" \notin DOMAIN store))
          => entries' = << >>
    ]_vars

\* a list of two entries out of recency order, a pinned one behind an unpinned
\* one, whose contents JSON.stringify writes with escapes, has been saved over
\* a prior record and loaded back once its write had taken effect
C12_Witness ==
  /\ lastOp.op = "loadHistory"
  /\ saves = << >>
  /\ store.present
  /\ "entries" \in DOMAIN store
  /\ Len(entries) = 2
  /\ entries = store.entries
  /\ ~entries[1].isPinned
  /\ entries[2].isPinned
  /\ entries[1].timestamp < entries[2].timestamp
  /\ entries[1].content = StorageContents[1]
  /\ entries[2].content = StorageContents[2]

----------------------------------------------------------------------------
(* Properties of the life of a manager *)

\* C13: after dispose() the polling timer starts no further tick, whatever is
\* called afterwards.
C13_NoTickAfterDispose == [][TickStart => ~disposed]_vars

\* C14: when the clipboard read of initialize() fails, initialize() raises no
\* error, the baseline stays the empty string, the loaded and swept list is
\* kept and the polling timer is started.
C14_InitializeSurvivesReadFailure ==
  [][InitializeReadFails =>
       (/\ lastOp'.op # "rejected"
        /\ lastClipboardContent' = Empty
        /\ entries' = entries
        /\ monitoringInterval')]_vars

\* C17: after every polling tick the baseline equals the text the tick read,
\* whether that text was captured, excluded, a duplicate or the empty string.
C17_BaselineFollowsEveryRead ==
  [][\A i \in DOMAIN reads :
       TickResumeWithin(i, MaxIds) => lastClipboardContent' = reads[i]]_vars

----------------------------------------------------------------------------
(* Properties of the captures *)

\* C16: in every state reached by captures of polling ticks, togglePin,
\* deleteEntry and copyToClipboard, the two most recent unpinned entries differ
\* in content.
C16_NoRepeatAtUnpinnedHead ==
  LET unpinned == UnpinnedEntries(entries)
  IN Len(unpinned) >= 2 => unpinned[1].content # unpinned[2].content

----------------------------------------------------------------------------
(* Properties of the list operations *)

\* the first m elements of s, all of s when it has fewer
FirstM(s, m) == [i \in {j \in DOMAIN s : j <= m} |-> s[i]]

\* the list after the step is P ++ firstM([new] ++ U) of the list before it
AddedAtUnpinnedHead(content) ==
  entries' = PinnedEntries(entries)
               \o FirstM(<<NewEntry(nextId, content, now)>> \o UnpinnedEntries(entries),
                         config.maxHistorySize)

\* C18: addEntry(content), called directly or by a capturing tick, on a list
\* with pinned entries P and unpinned entries U leaves P ++ firstM([new] ++ U),
\* m = maxHistorySize: P in order, the new entry first of the unpinned ones when
\* m >= 1, and only the tail of the unpinned entries dropped.
C18_AddEntryKeepsPinnedDropsTail ==
  [][/\ \A content \in Contents :
          AddEntryWithin(content, MaxAddIds) => AddedAtUnpinnedHead(content)
     /\ \A i \in DOMAIN reads :
          (TickResumeWithin(i, MaxAddIds) /\ nextId' # nextId)
            => AddedAtUnpinnedHead(reads[i])]_vars

\* addEntry on the list of two pinned and two unpinned entries, at the cap of
\* two, has put the new entry behind the pinned ones and ahead of the newer
\* unpinned one, and has dropped the older unpinned one
C18_Witness ==
  /\ saves # << >>
  /\ saves[Len(saves)].op = "addEntry"
  /\ saves[Len(saves)].n = 1
  /\ config.maxHistorySize = 2
  /\ Len(entries) = 4
  /\ entries[1] = AddStoredFull[1]
  /\ entries[2] = AddStoredFull[2]
  /\ entries[3].id = Len(AddStoredFull) + 1
  /\ ~entries[3].isPinned
  /\ entries[4] = AddStoredFull[3]

\* togglePin(id) runs on a list that holds the entry id unpinned
Pins(id) ==
  LET index == FindIndex(entries, id)
  IN index # 0 /\ ~entries[index].isPinned /\ TogglePin(id)

\* after the step the entry id, now pinned, is at position k, and the other
\* entries are as they were
PinnedAt(id, k) ==
  LET index == FindIndex(entries, id)
  IN /\ entries'[k] = [entries[index] EXCEPT !.isPinned = TRUE]
     /\ RemoveAt(entries', k) = RemoveAt(entries, index)

\* C19 as stated: when togglePin(id) pins an unpinned entry, that entry ends at
\* index 0, ahead of every entry pinned earlier, and the other entries keep
\* their fields and their relative order.
C19_PinnedEntryGoesToFront_AsStated ==
  [][\A id \in 1..MaxAsyncIds : Pins(id) => PinnedAt(id, 1)]_vars

\* C19: when togglePin(id) pins an unpinned entry, that entry ends in the pinned
\* block by its timestamp: every entry ahead of it is pinned and not older than
\* it, every pinned entry behind it is older; the other entries keep their
\* fields and their relative order.
C19_PinnedEntrySortedByTimestamp ==
  [][\A id \in 1..MaxAsyncIds :
       Pins(id) =>
         \E k \in DOMAIN entries' :
           /\ PinnedAt(id, k)
           /\ \A j \in 1..(k - 1) :
                 /\ entries'[j].isPinned
                 /\ entries'[j].timestamp >= entries'[k].timestamp
           /\ \A j \in (k + 1)..Len(entries') :
                 entries'[j].isPinned
                   => entries'[j].timestamp < entries'[k].timestamp]_vars

\* togglePin has pinned the third of three entries and awaits its store write:
\* the list runs from a newer entry at the front to an older one at the back
C19_Witness ==
  /\ saves # << >>
  /\ saves[Len(saves)].op = "togglePin"
  /\ saves[Len(saves)].value = SaveHistory(entries)
  /\ Len(entries) = 3
  /\ \A i \in DOMAIN entries : entries[i].isPinned
  /\ entries[1].timestamp > entries[3].timestamp

\* the entries of es whose id is not id, in the order of es
Without(es, id) ==
  LET Other(e) == e.id # id
  IN SelectSeq(es, Other)

\* C20: deleteEntry(id) for an id in the list removes that one entry and no
\* other: the remaining entries keep their fields and their order, the baseline
\* and the clipboard are untouched, and the new list is handed to the store,
\* which holds it once the write has taken effect.
C20_DeleteRemovesExactlyOne ==
  [][/\ \A id \in 1..MaxAsyncIds :
          (id \in IdsOf(entries) /\ DeleteEntry(id))
          => /\ Len(entries') = Len(entries) - 1
             /\ entries' = Without(entries, id)
             /\ UNCHANGED <<lastClipboardContent, clipboard>>
             /\ Len(saves') = Len(saves) + 1
             /\ saves'[Len(saves')].value.present
             /\ saves'[Len(saves')].value.entries = entries'
     /\ (SaveSettles /\ Head(saves).op = "deleteEntry")
          => store' = Head(saves).value]_vars

\* the second of three entries was deleted and the write has taken effect: the
\* newest and the oldest stay, in the list and in the store
C20_Witness ==
  /\ lastOp.op = "deleteEntry"
  /\ lastOp.fired
  /\ Len(entries) = 2
  /\ entries[1].id = 3
  /\ entries[2].id = 1
  /\ store.present
  /\ store.entries = entries

----------------------------------------------------------------------------
(* Properties of a session *)

\* C21: while nothing changes the clipboard after initialize() has taken its
\* baseline, no polling tick adds an entry: the text that was on the clipboard
\* at startup is never captured.
C21_StartupTextNeverCaptured == lastOp.op # "capture"

\* C22: a polling tick whose clipboard read fails changes neither the list, the
\* baseline nor the store, issues no store write, emits no change notification
\* and leaves the timer armed; the next tick whose read returns new text that
\* is not excluded and not the content of the first entry captures it.
C22_FailedReadChangesNothing ==
  [][\A i \in DOMAIN reads :
       /\ TickReadFails(i)
            => /\ UNCHANGED <<entries, lastClipboardContent, store, saves, config,
                              nextId, monitoringInterval, timers>>
               /\ ~lastOp'.fired
               /\ timers' > 0
       /\ (lastOp.op = "tickReadFailed" /\ MustCapture(reads[i])
             /\ TickResumeWithin(i, MaxIds))
            => /\ lastOp'.op = "capture"
               /\ NewEntryInList(reads[i]) \/ config.maxHistorySize = 0]_vars

\* a read has failed, the timer has fired again and the read of that tick is
\* about to return new text that passes every check, the list holding an entry
C22_Witness ==
  /\ lastOp.op = "tickReadFailed"
  /\ timers > 0
  /\ nextId <= MaxIds
  /\ entries # << >>
  /\ reads # << >>
  /\ MustCapture(reads[1])

\* a command changes the list and runs up to its awaited store write
HandlerStarts ==
  \/ \E content \in Contents : AddEntry(content)
  \/ \E id \in Ids : FindIndex(entries, id) # 0 /\ (DeleteEntry(id) \/ TogglePin(id))
  \/ ClearHistory

\* a tick captures: its addEntry runs up to its awaited store write
TickCaptures ==
  \E i \in DOMAIN reads : TickResumeWithin(i, MaxIds) /\ nextId' # nextId

\* a call that changes nothing: a tick without a capture, an absent id
NothingToDo ==
  \/ \E i \in DOMAIN reads : TickResumeWithin(i, MaxIds) /\ nextId' = nextId
  \/ \E id \in Ids : FindIndex(entries, id) = 0 /\ (DeleteEntry(id) \/ TogglePin(id))

\* C23: addEntry (called directly or by a tick), deleteEntry and togglePin of a
\* present id and clearHistory emit nothing up to their store write; when the
\* write has taken effect the handler emits its one change notification, the
\* list being left as it is; a tick that captures nothing and a call with an
\* absent id emit none and issue no write.
C23_OneNotificationAfterWrite ==
  [][/\ HandlerStarts => (lastOp' = lastOp /\ Len(saves') = Len(saves) + 1)
     /\ TickCaptures => (~lastOp'.fired /\ Len(saves') = Len(saves) + 1)
     /\ SaveSettles
          => /\ lastOp'.fired
             /\ lastOp'.op = Head(saves).op
             /\ store' = Head(saves).value
             /\ entries' = entries
             /\ Len(saves') = Len(saves) - 1
     /\ NothingToDo => (~lastOp'.fired /\ UNCHANGED <<entries, store, saves>>)]_vars

\* togglePin has completed with nothing else in flight: its notification is
\* out and the store holds the list it left
C23_Witness ==
  /\ lastOp = Op("togglePin", TRUE, 0)
  /\ saves = << >>
  /\ entries # << >>
  /\ store = SaveHistory(entries)

\* external changes of the clipboard since initialize, in SpecOneChange
ExternalChanges == IF phase = "ready" /\ clipboard = NotSecret THEN 1 ELSE 0

\* C24: whatever the interleaving of overlapping polling ticks, one external
\* change of the clipboard gives at most one new entry: the list, empty at
\* startup, never holds more entries than there were changes.
C24_OneEntryPerChange == Len(entries) <= ExternalChanges

\* C25: whenever the manager is initialized and nothing is in flight (no tick
\* awaits its read, no handler its store write, the write of the sweep has
\* taken effect), every write having succeeded, loadHistory() of the stored
\* record gives the in-memory list, an absent record counting as the empty list.
C25_StoreMatchesListAtRest ==
  (phase = "ready" /\ NothingInFlight) => LoadHistory(store) = entries

\* the sweep of initialize has emptied the list, addEntry has added an entry,
\* both writes have taken effect
C25_Witness ==
  /\ lastOp.op = "addEntry"
  /\ lastOp.fired
  /\ NothingInFlight
  /\ now >= 1
  /\ Len(entries) = 1
  /\ entries[1].id = MaxIds
  /\ store = SaveHistory(entries)

\* C26: with one initialize() and updateConfig, stopMonitoring and dispose
\* called at any moment, also while initialize() is at an await, at most one
\* interval is armed at any time, and none after stopMonitoring or dispose.
C26_AtMostOneTimer ==
  /\ timers <= 1
  /\ lastOp.op \in {"stopMonitoring", "dispose"} => timers = 0

====
